---- MODULE Spec2Model ----
(***************************************************************************)
(* Model of pwa_launcher.get_chromium: the platform probe                  *)
(* (find_chromium.py) and the three-tier resolver (get_chromium_install,   *)
(* __init__.py).  The portable installer (install_chromium.py) is a        *)
(* collaborator modelled from its interface.                               *)
(***************************************************************************)
EXTENDS Integers, Sequences, FiniteSets, TLC

VARIABLES
    system,     \* platform.system() of the host
    env,        \* os.environ restricted to the variables the probe reads
    fs,         \* kind of filesystem entry at each candidate path
    cache,      \* installer state: is a portable install present per install_dir
    op,         \* the public operation in progress ("none" when idle)
    policy,     \* arguments of the running get_chromium_install call
    pc,         \* position inside the running operation
    calls,      \* collaborators invoked so far by the running operation, in order
    result      \* outcome of the running operation

vars == <<system, env, fs, cache, op, policy, pc, calls, result>>

----------------------------------------------------------------------------
(* Bounds *)

\* at most this many candidate paths are occupied (file or directory) at once
MaxPresent == 2

----------------------------------------------------------------------------
(* Values *)

\* Optional[T]: None is the empty sequence, a value v is <<v>>
None == <<>>
Some(v) == <<v>>

Range(s) == {s[i] : i \in 1..Len(s)}

\* pathlib.Path: an anchor (drive + root; empty for a relative path) and parts
MkPath(anchor, parts) == [anchor |-> anchor, parts |-> parts]

PosixPath(parts) == MkPath("/", parts)

\* Path(s) for the base-directory strings that reach the probe
PathOf(s) ==
    CASE s = "" -> MkPath("", <<>>)
      [] s = "C:\\Program Files" -> MkPath("C:\\", <<"Program Files">>)
      [] s = "C:\\Program Files (x86)" -> MkPath("C:\\", <<"Program Files (x86)">>)
      [] s = "D:\\Program Files" -> MkPath("D:\\", <<"Program Files">>)
      [] s = "D:\\Program Files (x86)" -> MkPath("D:\\", <<"Program Files (x86)">>)
      [] s = "C:\\Users\\user\\AppData\\Local" ->
             MkPath("C:\\", <<"Users", "user", "AppData", "Local">>)

\* Path.__truediv__ applied along a chain of relative segments
Join(p, segs) == MkPath(p.anchor, p.parts \o segs)

\* Path.is_absolute()
is_absolute(p) == p.anchor # ""

\* str(path): the anchor followed by the parts, as text
Str(p) == [text |-> <<p.anchor>> \o p.parts]

\* Path.home()
Home == PosixPath(<<"Users", "user">>)

----------------------------------------------------------------------------
(* Host environment *)

Systems == {"Windows", "Darwin", "Linux", "FreeBSD"}

Unset == "<unset>"

EnvVars == {"PROGRAMFILES", "PROGRAMFILES(X86)", "LOCALAPPDATA"}

\* the value each variable has on a host that defines it
EnvSetValue(v) ==
    CASE v = "PROGRAMFILES" -> "D:\\Program Files"
      [] v = "PROGRAMFILES(X86)" -> "D:\\Program Files (x86)"
      [] v = "LOCALAPPDATA" -> "C:\\Users\\user\\AppData\\Local"

\* os.environ.get(name, default)
EnvGet(name, default) == IF env[name] = Unset THEN default ELSE env[name]

Kinds == {"absent", "file", "dir"}

----------------------------------------------------------------------------
(* Platform probe: find_chromium.py *)

get_chrome_paths ==
    IF system = "Windows" THEN
        LET program_files == EnvGet("PROGRAMFILES", "C:\\Program Files")
            program_files_x86 == EnvGet("PROGRAMFILES(X86)", "C:\\Program Files (x86)")
            local_appdata == EnvGet("LOCALAPPDATA", "")
            tail == <<"Google", "Chrome", "Application", "chrome.exe">>
        IN  << Join(PathOf(program_files), tail),
               Join(PathOf(program_files_x86), tail),
               Join(PathOf(local_appdata), tail) >>
    ELSE IF system = "Darwin" THEN
        << PosixPath(<<"Applications", "Google Chrome.app", "Contents", "MacOS", "Google Chrome">>),
           Join(Home, <<"Applications", "Google Chrome.app", "Contents", "MacOS", "Google Chrome">>) >>
    ELSE IF system = "Linux" THEN
        << PosixPath(<<"usr", "bin", "google-chrome">>),
           PosixPath(<<"usr", "bin", "google-chrome-stable">>),
           PosixPath(<<"usr", "bin", "chrome">>),
           PosixPath(<<"usr", "local", "bin", "google-chrome">>),
           PosixPath(<<"usr", "local", "bin", "chrome">>),
           PosixPath(<<"opt", "google", "chrome", "chrome">>),
           PosixPath(<<"snap", "bin", "chromium">>) >>
    ELSE <<>>

get_edge_paths ==
    IF system = "Windows" THEN
        LET program_files == EnvGet("PROGRAMFILES", "C:\\Program Files")
            program_files_x86 == EnvGet("PROGRAMFILES(X86)", "C:\\Program Files (x86)")
            tail == <<"Microsoft", "Edge", "Application", "msedge.exe">>
        IN  << Join(PathOf(program_files), tail),
               Join(PathOf(program_files_x86), tail) >>
    ELSE IF system = "Darwin" THEN
        << PosixPath(<<"Applications", "Microsoft Edge.app", "Contents", "MacOS", "Microsoft Edge">>),
           Join(Home, <<"Applications", "Microsoft Edge.app", "Contents", "MacOS", "Microsoft Edge">>) >>
    ELSE IF system = "Linux" THEN
        << PosixPath(<<"usr", "bin", "microsoft-edge">>),
           PosixPath(<<"usr", "bin", "microsoft-edge-stable">>),
           PosixPath(<<"usr", "bin", "microsoft-edge-beta">>),
           PosixPath(<<"usr", "bin", "microsoft-edge-dev">>),
           PosixPath(<<"opt", "microsoft", "msedge", "msedge">>),
           PosixPath(<<"snap", "bin", "microsoft-edge">>) >>
    ELSE <<>>

\* every path the probe can ask the filesystem about on this host
Candidates == Range(get_chrome_paths) \cup Range(get_edge_paths)

\* Path.exists() and Path.is_file()
exists(p) == fs[p] # "absent"
is_file(p) == fs[p] = "file"

\* a mutation of IsDetected: the is_file() test is dropped
IsDetected_ExistsOnly(p) == exists(p)

\* the test of the scan loops: path.exists() and path.is_file()
IsDetected(p) == exists(p) /\ is_file(p)

\* the scan loop shared by find_chrome and find_edge, from index i on
RECURSIVE ScanFrom(_, _)
ScanFrom(paths, i) ==
    IF i > Len(paths) THEN None
    ELSE IF IsDetected(paths[i]) THEN Some(paths[i])
    ELSE ScanFrom(paths, i + 1)

find_chrome == ScanFrom(get_chrome_paths, 1)

find_edge == ScanFrom(get_edge_paths, 1)

\* a mutation of find_system_chromium: Edge is tried before Chrome
find_system_chromium_EdgeFirst ==
    IF find_edge # None THEN find_edge
    ELSE IF find_chrome # None THEN find_chrome
    ELSE None

\* a mutation of find_system_chromium: the Edge fallback is missing
find_system_chromium_NoFallback == find_chrome

find_system_chromium ==
    IF find_chrome # None THEN find_chrome
    ELSE IF find_edge # None THEN find_edge
    ELSE None

\* the probe functions find_system_chromium itself invokes, in order
find_system_chromium_calls ==
    IF find_chrome # None THEN <<"find_chrome">>
    ELSE <<"find_chrome", "find_edge">>

StrOpt(o) == IF o # None THEN Some(Str(o[1])) ELSE None

\* a mutation of get_chromium_info: preferred reports Edge before Chrome
get_chromium_info_EdgePreferred ==
    [ chrome |-> [available |-> find_chrome # None, path |-> StrOpt(find_chrome)],
      edge |-> [available |-> find_edge # None, path |-> StrOpt(find_edge)],
      any_available |-> (find_chrome # None \/ find_edge # None),
      preferred |-> IF find_edge # None THEN Some(Str(find_edge[1]))
                    ELSE StrOpt(find_chrome) ]

get_chromium_info ==
    LET chrome == find_chrome
        edge == find_edge
    IN  [ chrome |-> [available |-> chrome # None,
                      path |-> IF chrome # None THEN Some(Str(chrome[1])) ELSE None],
          edge |-> [available |-> edge # None,
                    path |-> IF edge # None THEN Some(Str(edge[1])) ELSE None],
          any_available |-> (chrome # None \/ edge # None),
          preferred |-> IF chrome # None THEN Some(Str(chrome[1]))
                        ELSE (IF edge # None THEN Some(Str(edge[1])) ELSE None) ]

----------------------------------------------------------------------------
(* Portable installer: the collaborator behind find_existing_chromium and   *)
(* install_chromium                                                         *)

\* the directory the installer uses when install_dir is None
DefaultInstallDir == PosixPath(<<"home", "user", ".pwa_launcher", "chromium">>)

CustomInstallDir == PosixPath(<<"srv", "browsers">>)

\* the values of the install_dir argument
InstallDirs == {None, Some(CustomInstallDir)}

\* the executable of the portable install kept under install_dir
PortableExe(install_dir) ==
    Join(IF install_dir = None THEN DefaultInstallDir ELSE install_dir[1],
         <<"chrome", "chrome">>)

\* lookup_cached: the cached executable if one is installed, else None
find_existing_chromium(install_dir) ==
    IF cache[install_dir] THEN Some(PortableExe(install_dir)) ELSE None

\* the errors install can raise: network, corrupt download, extraction
InstallerErrors == {"URLError", "BadZipFile", "OSError"}

\* install: the outcomes one invocation can have
install_chromium(install_dir, clean_existing, force_reinstall) ==
    {[ok |-> TRUE, path |-> PortableExe(install_dir), error |-> ""]}
    \cup {[ok |-> FALSE, path |-> PortableExe(install_dir), error |-> e] :
            e \in InstallerErrors}

----------------------------------------------------------------------------
(* Resolver: get_chromium_install, __init__.py *)

NoExc == [type |-> "", msg |-> "", cause |-> ""]

Pending == [kind |-> "pending", value |-> None, exc |-> NoExc]

Return(v) == [kind |-> "return", value |-> v, exc |-> NoExc]

Raise(e) == [kind |-> "raise", value |-> None, exc |-> e]

\* class ChromiumNotFoundError(Exception), with the __cause__ set by "from"
ChromiumNotFoundError(msg, cause) ==
    [type |-> "ChromiumNotFoundError", msg |-> msg, cause |-> cause]

DownloadFailedMsg == "Failed to download Chromium and no other browser found"

NoOptionsMsg == "No Chromium browser found. Either install Chrome/Edge on your system, or allow Chromium download by setting allow_download=True"

NoPolicy ==
    [allow_system |-> TRUE, allow_download |-> TRUE,
     install_dir |-> None, force_reinstall |-> FALSE]

Policies ==
    [allow_system : BOOLEAN, allow_download : BOOLEAN,
     install_dir : InstallDirs, force_reinstall : BOOLEAN]

\* one logged invocation of a collaborator: the function, its arguments and
\* the error it raised ("" when it returned normally)
Invocation(fn) ==
    [fn |-> fn, install_dir |-> None, clean_existing |-> FALSE,
     force_reinstall |-> FALSE, raised |-> ""]

InstallInvocation(install_dir, clean_existing, force_reinstall, raised) ==
    [fn |-> "install_chromium", install_dir |-> install_dir,
     clean_existing |-> clean_existing, force_reinstall |-> force_reinstall,
     raised |-> raised]

\* a mutation of Step1Permitted: the probe runs whatever allow_system says
Step1Permitted_Always == TRUE

\* "if allow_system:"
Step1Permitted == policy.allow_system

\* a mutation of Step2Permitted: the cached tier is never consulted
Step2Permitted_Never == FALSE

\* a mutation of Step2Permitted: force_reinstall is not looked at
Step2Permitted_IgnoreForce == policy.allow_download

\* "if allow_download and not force_reinstall:"
Step2Permitted == policy.allow_download /\ ~policy.force_reinstall

\* "if allow_download:"
Step3Permitted == policy.allow_download

\* a mutation of TranslateInstallerError: the installer's error escapes as it is
TranslateInstallerError_Reraise(e) == [type |-> e, msg |-> e, cause |-> "None"]

\* "except Exception as e: raise ChromiumNotFoundError(...) from e"
TranslateInstallerError(e) == ChromiumNotFoundError(DownloadFailedMsg, e)

\* a mutation of NoOptionsError: the message of the download failure is reused
NoOptionsError_SameMsg == ChromiumNotFoundError(DownloadFailedMsg, "None")

\* the final raise: no options left
NoOptionsError == ChromiumNotFoundError(NoOptionsMsg, "None")

Present == {p \in DOMAIN fs : fs[p] # "absent"}

Init ==
    /\ system \in Systems
    /\ env \in IF system = "Windows"
               THEN {e \in [EnvVars -> {Unset} \cup {EnvSetValue(v) : v \in EnvVars}] :
                        \A v \in EnvVars : e[v] \in {Unset, EnvSetValue(v)}}
               ELSE {[v \in EnvVars |-> Unset]}
    /\ fs = [p \in Candidates |-> "absent"]
    /\ cache = [d \in InstallDirs |-> FALSE]
    /\ op = "none"
    /\ policy = NoPolicy
    /\ pc = "idle"
    /\ calls = <<>>
    /\ result = Pending

(* The world around the program: browsers get installed and removed *)

Touch(p) ==
    /\ pc = "idle"
    /\ fs[p] = "absent"
    /\ Cardinality(Present) < MaxPresent
    /\ fs' = [fs EXCEPT ![p] = "file"]
    /\ UNCHANGED <<system, env, cache, op, policy, pc, calls, result>>

Mkdir(p) ==
    /\ pc = "idle"
    /\ fs[p] = "absent"
    /\ Cardinality(Present) < MaxPresent
    /\ fs' = [fs EXCEPT ![p] = "dir"]
    /\ UNCHANGED <<system, env, cache, op, policy, pc, calls, result>>

Remove(p) ==
    /\ pc = "idle"
    /\ fs[p] # "absent"
    /\ fs' = [fs EXCEPT ![p] = "absent"]
    /\ UNCHANGED <<system, env, cache, op, policy, pc, calls, result>>

(* The probe's public functions, called directly *)

CallFindChrome ==
    /\ pc = "idle"
    /\ op' = "find_chrome"
    /\ result' = Return(find_chrome)
    /\ pc' = "done"
    /\ UNCHANGED <<system, env, fs, cache, policy, calls>>

CallFindEdge ==
    /\ pc = "idle"
    /\ op' = "find_edge"
    /\ result' = Return(find_edge)
    /\ pc' = "done"
    /\ UNCHANGED <<system, env, fs, cache, policy, calls>>

CallFindSystemChromium ==
    /\ pc = "idle"
    /\ op' = "find_system_chromium"
    /\ result' = Return(find_system_chromium)
    /\ calls' = [i \in 1..Len(find_system_chromium_calls) |->
                    Invocation(find_system_chromium_calls[i])]
    /\ pc' = "done"
    /\ UNCHANGED <<system, env, fs, cache, policy>>

CallGetChromiumInfo ==
    /\ pc = "idle"
    /\ op' = "get_chromium_info"
    /\ result' = Return(get_chromium_info)
    /\ calls' = <<Invocation("find_chrome"), Invocation("find_edge")>>
    /\ pc' = "done"
    /\ UNCHANGED <<system, env, fs, cache, policy>>

(* get_chromium_install, one action per tier *)

CallGetChromiumInstall(p) ==
    /\ pc = "idle"
    /\ op' = "get_chromium_install"
    /\ policy' = p
    /\ pc' = "step1"
    /\ UNCHANGED <<system, env, fs, cache, calls, result>>

\* Step 1: try system-installed browsers
SystemTier ==
    /\ pc = "step1"
    /\ IF Step1Permitted
       THEN /\ calls' = calls \o <<Invocation("find_system_chromium")>>
                  \o [i \in 1..Len(find_system_chromium_calls) |->
                         Invocation(find_system_chromium_calls[i])]
            /\ IF find_system_chromium # None
               THEN result' = Return(find_system_chromium) /\ pc' = "done"
               ELSE pc' = "step2" /\ UNCHANGED result
       ELSE pc' = "step2" /\ UNCHANGED <<calls, result>>
    /\ UNCHANGED <<system, env, fs, cache, op, policy>>

\* Step 2: check if portable Chrome was already downloaded
CachedTier ==
    /\ pc = "step2"
    /\ IF Step2Permitted
       THEN /\ calls' = calls \o <<[Invocation("find_existing_chromium")
                                      EXCEPT !.install_dir = policy.install_dir]>>
            /\ IF find_existing_chromium(policy.install_dir) # None
               THEN /\ result' = Return(find_existing_chromium(policy.install_dir))
                    /\ pc' = "done"
               ELSE pc' = "step3" /\ UNCHANGED result
       ELSE pc' = "step3" /\ UNCHANGED <<calls, result>>
    /\ UNCHANGED <<system, env, fs, cache, op, policy>>

\* a mutation of DownloadTier: a failed install is attempted again
DownloadTier_Retry ==
    /\ pc = "step3"
    /\ Step3Permitted
    /\ \E out \in install_chromium(policy.install_dir, FALSE, policy.force_reinstall) :
          /\ calls' = calls \o <<InstallInvocation(policy.install_dir, FALSE,
                                                   policy.force_reinstall, out.error)>>
          /\ IF out.ok
             THEN /\ result' = Return(Some(out.path))
                  /\ cache' = [cache EXCEPT ![policy.install_dir] = TRUE]
                  /\ pc' = "done"
             ELSE /\ UNCHANGED <<result, cache>>
                  /\ pc' = "step3"
    /\ UNCHANGED <<system, env, fs, op, policy>>

\* Step 3: download portable Chrome
DownloadTier ==
    /\ pc = "step3"
    /\ Step3Permitted
    /\ \E out \in install_chromium(policy.install_dir, FALSE, policy.force_reinstall) :
          /\ calls' = calls \o <<InstallInvocation(policy.install_dir, FALSE,
                                                   policy.force_reinstall, out.error)>>
          /\ IF out.ok
             THEN /\ result' = Return(Some(out.path))
                  /\ cache' = [cache EXCEPT ![policy.install_dir] = TRUE]
             ELSE /\ result' = Raise(TranslateInstallerError(out.error))
                  /\ UNCHANGED cache
    /\ pc' = "done"
    /\ UNCHANGED <<system, env, fs, op, policy>>

\* No options left
NoOptionsLeft ==
    /\ pc = "step3"
    /\ ~Step3Permitted
    /\ result' = Raise(NoOptionsError)
    /\ pc' = "done"
    /\ UNCHANGED <<system, env, fs, cache, op, policy, calls>>

\* the caller takes the outcome; the program is idle again
Finish ==
    /\ pc = "done"
    /\ op' = "none"
    /\ policy' = NoPolicy
    /\ pc' = "idle"
    /\ calls' = <<>>
    /\ result' = Pending
    /\ UNCHANGED <<system, env, fs, cache>>

Next ==
    \/ \E p \in Candidates : Touch(p)
    \/ \E p \in Candidates : Mkdir(p)
    \/ \E p \in Candidates : Remove(p)
    \/ CallFindChrome
    \/ CallFindEdge
    \/ CallFindSystemChromium
    \/ CallGetChromiumInfo
    \/ \E p \in Policies : CallGetChromiumInstall(p)
    \/ SystemTier
    \/ CachedTier
    \/ DownloadTier
    \/ NoOptionsLeft
    \/ Finish

Spec == Init /\ [][Next]_vars

----------------------------------------------------------------------------
(* Vocabulary of the properties *)

InCall == op = "get_chromium_install"

Done == pc = "done"

Called(fn) == \E i \in 1..Len(calls) : calls[i].fn = fn

\* a family is detectable when one of its candidates is a regular file
Detectable(paths) == \E i \in 1..Len(paths) : fs[paths[i]] = "file"

ChromeDetectable == Detectable(get_chrome_paths)

EdgeDetectable == Detectable(get_edge_paths)

\* the first candidate, in list order, that is a regular file; None if none is
FirstRegularFile(paths) ==
    IF Detectable(paths)
    THEN Some(paths[CHOOSE i \in 1..Len(paths) :
                        /\ fs[paths[i]] = "file"
                        /\ \A j \in 1..(i - 1) : fs[paths[j]] # "file"])
    ELSE None

\* the browser the system tier is expected to pick: Chrome first, then Edge
ExpectedSystemBrowser ==
    IF ChromeDetectable THEN FirstRegularFile(get_chrome_paths)
    ELSE FirstRegularFile(get_edge_paths)

\* the system tier yields nothing for the running call
SystemTierYieldsNothing ==
    ~policy.allow_system \/ (~ChromeDetectable /\ ~EdgeDetectable)

----------------------------------------------------------------------------
(* C1: whenever a Chrome candidate and an Edge candidate are both regular   *)
(* files, a finished get_chromium_install call with allow_system=true has   *)
(* returned a path of the Chrome list and not a path of the Edge list,      *)
(* whatever the positions of the files and the other policy fields.         *)
C1_ChromeBeforeEdge ==
    (InCall /\ Done /\ policy.allow_system /\ ChromeDetectable /\ EdgeDetectable)
        => /\ result.kind = "return"
           /\ result.value # None
           /\ result.value[1] \in Range(get_chrome_paths)
           /\ result.value[1] \notin Range(get_edge_paths)

\* Chrome is the last candidate of its list, Edge the first of its list
C1_Witness ==
    /\ InCall /\ Done /\ policy.allow_system
    /\ policy.force_reinstall /\ policy.allow_download
    /\ ChromeDetectable /\ EdgeDetectable
    /\ fs[get_chrome_paths[Len(get_chrome_paths)]] = "file"
    /\ fs[get_edge_paths[1]] = "file"
    /\ result = Return(Some(get_chrome_paths[Len(get_chrome_paths)]))

----------------------------------------------------------------------------
\* the policy of the call lets the cached tier answer, and the system tier
\* yields nothing
C2_Pre ==
    /\ InCall
    /\ policy.allow_download /\ ~policy.force_reinstall
    /\ SystemTierYieldsNothing

(* C2: in a call with allow_download=true and force_reinstall=false whose   *)
(* system tier yields nothing, as long as a cached portable install exists  *)
(* under install_dir no step of the call invokes install_chromium, and the  *)
(* step that finishes the call returns exactly                              *)
(* find_existing_chromium(install_dir).                                     *)
C2_CachedInstallIsReturned ==
    [][ (C2_Pre' /\ cache[policy'.install_dir])
          => /\ ~Called("install_chromium")'
             /\ cache'[policy'.install_dir]
             /\ (Done' => /\ result'.kind = "return"
                          /\ result'.value # None
                          /\ result'.value = find_existing_chromium(policy.install_dir)'
                          /\ result'.value = Some(PortableExe(policy'.install_dir))) ]_vars

\* a browser directory occupies a Chrome path, the custom cache answers
C2_Witness ==
    /\ C2_Pre /\ Done /\ policy.allow_system
    /\ \E p \in Candidates : fs[p] = "dir"
    /\ policy.install_dir = Some(CustomInstallDir)
    /\ cache[policy.install_dir] /\ ~cache[None]
    /\ Called("find_system_chromium") /\ Called("find_existing_chromium")
    /\ ~Called("install_chromium")
    /\ result = Return(Some(PortableExe(policy.install_dir)))

----------------------------------------------------------------------------
(* C3 as stated: every finished call with force_reinstall=true has invoked  *)
(* install_chromium (the download tier is always performed).                *)
C3_AsStated ==
    (InCall /\ Done /\ policy.force_reinstall) => Called("install_chromium")

(* C3, amended: a finished call with force_reinstall=true and               *)
(* allow_download=true whose system tier yields nothing has invoked         *)
(* install_chromium and has never called find_existing_chromium, whether or *)
(* not a cached install exists.                                             *)
C3_ForceReinstallBypassesCache ==
    (InCall /\ Done /\ policy.force_reinstall /\ policy.allow_download
       /\ SystemTierYieldsNothing)
        => /\ Called("install_chromium")
           /\ ~Called("find_existing_chromium")

\* the install failed, so the cached install seen now was there before the call
C3_Witness ==
    /\ InCall /\ Done /\ policy.force_reinstall /\ policy.allow_download
    /\ SystemTierYieldsNothing
    /\ cache[policy.install_dir]
    /\ result.kind = "raise"
    /\ Called("install_chromium")

----------------------------------------------------------------------------
(* C4: a call with allow_system=false and allow_download=false never calls  *)
(* the probe or the installer, and when it finishes it has raised            *)
(* ChromiumNotFoundError and returned no path, whatever install_dir,        *)
(* force_reinstall and the filesystem are.                                  *)
C4_AllDisallowedFails ==
    (InCall /\ ~policy.allow_system /\ ~policy.allow_download)
        => /\ calls = <<>>
           /\ Done => /\ result.kind = "raise"
                      /\ result.exc.type = "ChromiumNotFoundError"
                      /\ result.value = None

\* browsers and a cached install are there, and the call still fails
C4_Witness ==
    /\ InCall /\ Done /\ ~policy.allow_system /\ ~policy.allow_download
    /\ policy.force_reinstall /\ policy.install_dir = Some(CustomInstallDir)
    /\ ChromeDetectable /\ EdgeDetectable /\ cache[policy.install_dir]
    /\ result.kind = "raise"

----------------------------------------------------------------------------
(* C5: whenever install_chromium was invoked and raised an error, the       *)
(* finished call has raised ChromiumNotFoundError whose cause is that       *)
(* error; the outward error is not the installer's and no path is returned. *)
C5_InstallerErrorIsTranslated ==
    \A i \in 1..Len(calls) :
        (InCall /\ Done /\ calls[i].fn = "install_chromium" /\ calls[i].raised # "")
            => /\ result.kind = "raise"
               /\ result.exc.type = "ChromiumNotFoundError"
               /\ result.exc.type # calls[i].raised
               /\ result.exc.cause = calls[i].raised
               /\ result.value = None

C5_Witness ==
    /\ InCall /\ Done
    /\ Len(calls) = 1
    /\ calls[1].fn = "install_chromium" /\ calls[1].raised = "BadZipFile"
    /\ result.exc.cause = "BadZipFile"

----------------------------------------------------------------------------
(* C6: a call with allow_system=true on a host where a system browser is    *)
(* detectable never calls find_existing_chromium or install_chromium, and   *)
(* when it finishes it has returned that browser's path (the first regular  *)
(* file of the Chrome list, else of the Edge list), whatever allow_download *)
(* and force_reinstall are.                                                 *)
C6_SystemBrowserShortCircuits ==
    (InCall /\ policy.allow_system /\ (ChromeDetectable \/ EdgeDetectable))
        => /\ ~Called("find_existing_chromium")
           /\ ~Called("install_chromium")
           /\ Done => result = Return(ExpectedSystemBrowser)

\* no Chrome present, Edge present, download allowed and a cache at hand
C6_Witness ==
    /\ InCall /\ Done /\ policy.allow_system /\ policy.allow_download
    /\ ~ChromeDetectable /\ EdgeDetectable
    /\ cache[policy.install_dir]
    /\ result = Return(FirstRegularFile(get_edge_paths))

----------------------------------------------------------------------------
(* C7 as stated: among the failures of get_chromium_install, the message of *)
(* the all-disallowed failure is carried by exactly the failures in which   *)
(* allow_system and allow_download were both false.                         *)
C7_AsStated ==
    (InCall /\ Done /\ result.kind = "raise")
        => ((~policy.allow_system /\ ~policy.allow_download)
               <=> result.exc.msg = NoOptionsMsg)

(* C7, amended: the message tells apart the failures in which download was  *)
(* disallowed (the system tier attempted or not) from the failures in which *)
(* the download tier was attempted and failed: the first carry the          *)
(* "no browser found" message, the second the "failed to download" message, *)
(* and the two messages differ.                                             *)
C7_MessageTellsDownloadDisallowed ==
    (InCall /\ Done /\ result.kind = "raise")
        => /\ DownloadFailedMsg # NoOptionsMsg
           /\ ~policy.allow_download <=> result.exc.msg = NoOptionsMsg
           /\ policy.allow_download <=>
                 (result.exc.msg = DownloadFailedMsg /\ Called("install_chromium"))

\* the system tier was attempted and found nothing, download was disallowed
C7_Witness ==
    /\ InCall /\ Done /\ result.kind = "raise"
    /\ policy.allow_system /\ ~policy.allow_download
    /\ Called("find_system_chromium")
    /\ result.exc.msg = NoOptionsMsg

----------------------------------------------------------------------------
\* the finished call returned the path found by the system tier
ReturnedFromSystemTier ==
    /\ InCall /\ Done /\ result.kind = "return"
    /\ ~Called("find_existing_chromium") /\ ~Called("install_chromium")

(* C8: once a public operation has run, every candidate path the probe      *)
(* produced is absolute, and so is a path get_chromium_install returned     *)
(* from the system tier, whether or not the environment variables are set.  *)
C8_CandidatesAreAbsolute ==
    Done => /\ \A i \in 1..Len(get_chrome_paths) : is_absolute(get_chrome_paths[i])
            /\ \A i \in 1..Len(get_edge_paths) : is_absolute(get_edge_paths[i])
            /\ ReturnedFromSystemTier => is_absolute(result.value[1])

----------------------------------------------------------------------------
(* C9: a finished get_chromium_info reports chrome.available and            *)
(* edge.available exactly when the family is detectable, each path as the   *)
(* text of the first regular file of the family (None when there is none),  *)
(* any_available exactly when a family is detectable, and preferred as the  *)
(* Chrome path, else the Edge path, else None: the text of what             *)
(* find_system_chromium returns on the same filesystem.                     *)
C9_InfoMatchesDetection ==
    (op = "get_chromium_info" /\ Done)
        => /\ result.kind = "return"
           /\ result.value.chrome.available = ChromeDetectable
           /\ result.value.edge.available = EdgeDetectable
           /\ result.value.chrome.path = StrOpt(FirstRegularFile(get_chrome_paths))
           /\ result.value.edge.path = StrOpt(FirstRegularFile(get_edge_paths))
           /\ result.value.any_available = (ChromeDetectable \/ EdgeDetectable)
           /\ result.value.preferred = StrOpt(ExpectedSystemBrowser)
           /\ result.value.preferred = StrOpt(find_system_chromium)

\* both families detectable: preferred is the Chrome path, not the Edge path
C9_Witness ==
    /\ op = "get_chromium_info" /\ Done
    /\ ChromeDetectable /\ EdgeDetectable
    /\ result.value.preferred = result.value.chrome.path
    /\ result.value.preferred # result.value.edge.path

----------------------------------------------------------------------------
(* C10: a finished find_chrome (find_edge) has returned the first candidate *)
(* of its list that is a regular file, passing over candidates that are     *)
(* absent or directories, and None when no candidate is a regular file; a   *)
(* directory is never returned.                                             *)
C10_FirstRegularFileIsFound ==
    /\ (op = "find_chrome" /\ Done)
          => /\ result = Return(FirstRegularFile(get_chrome_paths))
             /\ result.value # None => fs[result.value[1]] = "file"
    /\ (op = "find_edge" /\ Done)
          => /\ result = Return(FirstRegularFile(get_edge_paths))
             /\ result.value # None => fs[result.value[1]] = "file"

\* a directory sits on the first candidate, the file on the second is found
C10_Witness ==
    /\ op = "find_chrome" /\ Done
    /\ Len(get_chrome_paths) >= 2
    /\ fs[get_chrome_paths[1]] = "dir"
    /\ fs[get_chrome_paths[2]] = "file"
    /\ result = Return(Some(get_chrome_paths[2]))

----------------------------------------------------------------------------
\* how often the running call has invoked fn
TimesCalled(fn) == Cardinality({i \in 1..Len(calls) : calls[i].fn = fn})

\* the tier a collaborator belongs to
TierOf(fn) ==
    CASE fn \in {"find_system_chromium", "find_chrome", "find_edge"} -> 1
      [] fn = "find_existing_chromium" -> 2
      [] fn = "install_chromium" -> 3

(* C11: within one get_chromium_install call find_system_chromium,          *)
(* find_existing_chromium and install_chromium are each invoked at most     *)
(* once and in that order (no invocation of an earlier tier follows one of  *)
(* a later tier); install_chromium gets clean_existing=false and the        *)
(* caller's install_dir and force_reinstall, find_existing_chromium the     *)
(* caller's install_dir; and once install_chromium has been invoked the     *)
(* call is over, so a failed install is not retried.                        *)
C11_EachTierOnceInOrder ==
    InCall =>
        /\ TimesCalled("find_system_chromium") <= 1
        /\ TimesCalled("find_existing_chromium") <= 1
        /\ TimesCalled("install_chromium") <= 1
        /\ \A i, j \in 1..Len(calls) :
              i < j => TierOf(calls[i].fn) <= TierOf(calls[j].fn)
        /\ \A i \in 1..Len(calls) :
              /\ calls[i].fn = "install_chromium"
                    => /\ calls[i].clean_existing = FALSE
                       /\ calls[i].install_dir = policy.install_dir
                       /\ calls[i].force_reinstall = policy.force_reinstall
                       /\ i = Len(calls)
                       /\ Done
              /\ calls[i].fn = "find_existing_chromium"
                    => calls[i].install_dir = policy.install_dir

\* all three tiers ran, once each, and the install failed
C11_Witness ==
    /\ InCall /\ Done
    /\ policy.install_dir = Some(CustomInstallDir)
    /\ Len(calls) = 5
    /\ calls[1].fn = "find_system_chromium"
    /\ calls[4].fn = "find_existing_chromium"
    /\ calls[5].fn = "install_chromium" /\ calls[5].raised = "URLError"
    /\ result.kind = "raise"

====
